---- MODULE Spec2Model ----
(***************************************************************************)
(* Model of srt-rs RecvBuffer (src/src/recv_buffer.rs): the receiver-side  *)
(* reorder-and-reassembly window.  Packets are stored in `buffer`, where   *)
(* buffer[1] (VecDeque index 0) holds sequence number `head`.              *)
(***************************************************************************)
EXTENDS Integers, Sequences, FiniteSets

VARIABLES
    head0,     \* the argument of RecvBuffer::new (never changes afterwards)
    head,      \* RecvBuffer.head
    buffer,    \* RecvBuffer.buffer : VecDeque<Option<DataPacket>>
    op,        \* the method called last
    arg,       \* the packet passed to the last call of add (NONE otherwise)
    ret,       \* what the last call returned (PANIC when it panicked)
    status,    \* "running", or "panicked" once a call has panicked
    tracked,   \* history: every add so far had a fresh sequence number >= head
    inserted,  \* history: the packets added while `tracked`
    taken,     \* history: sequence number and payload of the packets removed by
               \* next_msg, in removal order
    out,       \* history: all bytes returned by next_msg so far, in call order
    stream     \* the flags the peer's stream gives each sequence number from
               \* head0 on (<<>> when the peer is not assumed well-formed)

vars == <<head0, head, buffer, op, arg, ret, status, tracked, inserted,
          taken, out, stream>>

----------------------------------------------------------------------------
(* Bounds of the model *)

\* Number of consecutive sequence numbers, from head0 on, that packets carry.
MaxSpan == 3

----------------------------------------------------------------------------
(* Option<T> and the outcome of a call *)

NONE == [kind |-> "None"]

SOME(v) == [kind |-> "Some", val |-> v]

\* The call did not return: a panic unwound (or aborted) the caller.  `at` is
\* the panicking expression: "assert" (line 54) or "unwrap" (lines 80, 86-88).
PANIC(at) == [kind |-> "Panic", at |-> at]

IsSome(o) == o.kind = "Some"

IsNone(o) == o.kind = "None"

----------------------------------------------------------------------------
(* SeqNumber: the 31-bit wrap-around counter of crate::SeqNumber.  The     *)
(* type is not part of recv_buffer.rs; its arithmetic follows section 3 of *)
(* the specification (ordering, b - a as a distance, + unsigned count).    *)

\* Largest raw sequence number, 2^31 - 1.
MaxSeqNum == 2147483647

\* Half of the sequence space, 2^30: distances above it count as "behind".
HalfSeqSpace == 1073741824

\* a + n modulo 2^31, for 0 <= n <= MaxSeqNum
SeqAdd(a, n) ==
    IF MaxSeqNum - a >= n THEN a + n ELSE n - (MaxSeqNum - a) - 1

\* a - b modulo 2^31: the distance from b forward to a
SeqSub(a, b) ==
    IF a >= b THEN a - b ELSE (MaxSeqNum - b) + a + 1

\* a < b in window order
SeqLess(a, b) == a # b /\ SeqSub(a, b) > HalfSeqSpace

----------------------------------------------------------------------------
(* PacketLocation flags, payloads and packets *)

FIRST == "FIRST"

LAST == "LAST"

PacketLocation == SUBSET {FIRST, LAST}

\* Bytes of the payloads used by the tests of recv_buffer.rs
Hello == <<"h", "e", "l", "l", "o">>

Yas == <<"y", "a", "s">>

Payloads == {Hello, Yas}

\* Initial heads: those of the tests, and one just below the wrap-around.
Heads == {3, 5, MaxSeqNum - 1}

\* The sequence numbers packets may carry in a run created with head h0; the
\* ones before `head` are the stale ones once messages have been released.
SeqNumbers(h0) == {SeqAdd(h0, k) : k \in 0..(MaxSpan - 1)}

DataPacket(h0) ==
    [seq_number : SeqNumbers(h0), message_loc : PacketLocation, payload : Payloads]

----------------------------------------------------------------------------
(* RecvBuffer::add *)

\* Mutant of Resize: one slot more than asked for.
Resize_extra(buf, n) == buf \o [i \in 1..(n + 1 - Len(buf)) |-> NONE]

\* VecDeque::resize(n, None) for n >= Len(buf)
Resize(buf, n) == buf \o [i \in 1..(n - Len(buf)) |-> NONE]

\* Mutant of add: an occupied slot keeps the packet it holds.
add_firstWins(buf, h, pack) ==
    IF SeqLess(pack.seq_number, h)
    THEN buf
    ELSE LET idx == SeqSub(pack.seq_number, h)
             resized == IF idx >= Len(buf) THEN Resize(buf, idx + 1) ELSE buf
         IN  IF IsSome(resized[idx + 1])
             THEN resized
             ELSE [resized EXCEPT ![idx + 1] = SOME(pack)]

\* Mutant of add: a packet beyond the end is pushed at the back, without the
\* gaps that resize() puts before it.
add_pushBack(buf, h, pack) ==
    IF SeqLess(pack.seq_number, h)
    THEN buf
    ELSE LET idx == SeqSub(pack.seq_number, h) IN
         IF idx >= Len(buf)
         THEN Append(buf, SOME(pack))
         ELSE [buf EXCEPT ![idx + 1] = SOME(pack)]

\* Mutant of add: no early return; the offset of a stale packet saturates
\* at 0, so the packet lands in the front slot.
add_staleAtFront(buf, h, pack) ==
    LET idx == IF SeqLess(pack.seq_number, h) THEN 0 ELSE SeqSub(pack.seq_number, h)
        resized == IF idx >= Len(buf) THEN Resize(buf, idx + 1) ELSE buf
    IN  [resized EXCEPT ![idx + 1] = SOME(pack)]

add(buf, h, pack) ==
    IF SeqLess(pack.seq_number, h)
    THEN buf
    ELSE LET idx == SeqSub(pack.seq_number, h)
             resized == IF idx >= Len(buf) THEN Resize(buf, idx + 1) ELSE buf
         IN  [resized EXCEPT ![idx + 1] = SOME(pack)]

\* `self.buffer[idx] = ...` (line 45) panics: idx is out of bounds after the resize
AddIndexPanics(buf, h, pack) ==
    /\ ~SeqLess(pack.seq_number, h)
    /\ LET idx == SeqSub(pack.seq_number, h)
           resized == IF idx >= Len(buf) THEN Resize(buf, idx + 1) ELSE buf
       IN  idx >= Len(resized)

----------------------------------------------------------------------------
(* RecvBuffer::next_msg_ready *)

\* Mutant of AssertFirstFails: the assertion is compiled out.
AssertFirstFails_never(buf) == FALSE

\* assert!(first.message_loc.contains(PacketLocation::FIRST)) fails
AssertFirstFails(buf) ==
    /\ Len(buf) > 0
    /\ IsSome(buf[1])
    /\ FIRST \notin buf[1].val.message_loc

\* Mutant of ScanForLast: a LAST-flagged packet closes the message only when
\* the slot after it is not occupied.
RECURSIVE ScanForLast_greedy(_, _, _)
ScanForLast_greedy(buf, i, count) ==
    IF i > Len(buf) THEN NONE
    ELSE IF /\ IsSome(buf[i]) /\ LAST \in buf[i].val.message_loc
            /\ (i = Len(buf) \/ IsNone(buf[i + 1]))
         THEN SOME(count)
    ELSE IF IsNone(buf[i]) THEN NONE
    ELSE ScanForLast_greedy(buf, i + 1, count + 1)

\* Mutant of ScanForLast: an absent slot is counted and stepped over.
RECURSIVE ScanForLast_skipGaps(_, _, _)
ScanForLast_skipGaps(buf, i, count) ==
    IF i > Len(buf) THEN NONE
    ELSE IF IsSome(buf[i]) /\ LAST \in buf[i].val.message_loc THEN SOME(count)
    ELSE ScanForLast_skipGaps(buf, i + 1, count + 1)

\* Mutant of ScanForLast: a gap closes the message that precedes it.
RECURSIVE ScanForLast_gapEnds(_, _, _)
ScanForLast_gapEnds(buf, i, count) ==
    IF i > Len(buf) THEN NONE
    ELSE IF IsSome(buf[i]) /\ LAST \in buf[i].val.message_loc THEN SOME(count)
    ELSE IF IsNone(buf[i]) THEN SOME(count - 1)
    ELSE ScanForLast_gapEnds(buf, i + 1, count + 1)

\* the loop `for i in &self.buffer`, at element i with the given count
RECURSIVE ScanForLast(_, _, _)
ScanForLast(buf, i, count) ==
    IF i > Len(buf) THEN NONE
    ELSE IF IsSome(buf[i]) /\ LAST \in buf[i].val.message_loc THEN SOME(count)
    ELSE IF IsNone(buf[i]) THEN NONE
    ELSE ScanForLast(buf, i + 1, count + 1)

\* Mutant of next_msg_ready: count starts at 0 instead of 1.
next_msg_ready_countFromZero(buf) ==
    IF Len(buf) > 0 /\ IsSome(buf[1])
    THEN IF AssertFirstFails(buf) THEN PANIC("assert") ELSE ScanForLast(buf, 1, 0)
    ELSE NONE

next_msg_ready(buf) ==
    IF Len(buf) > 0 /\ IsSome(buf[1])
    THEN IF AssertFirstFails(buf) THEN PANIC("assert") ELSE ScanForLast(buf, 1, 1)
    ELSE NONE

----------------------------------------------------------------------------
(* RecvBuffer::next_msg *)

\* Mutant of PopFrontPayload: pop_back() instead of pop_front().
PopFrontPayload_back(buf) ==
    IF Len(buf) = 0 \/ ~IsSome(buf[Len(buf)])
    THEN PANIC("unwrap")
    ELSE SOME(buf[Len(buf)].val.payload)

\* self.buffer.pop_front().unwrap().unwrap().payload.clone()
PopFrontPayload(buf) ==
    IF Len(buf) = 0 \/ ~IsSome(buf[1])
    THEN PANIC("unwrap")
    ELSE SOME(buf[1].val.payload)

\* Mutant of DrainFold: each payload is put in front of the bytes so far.
RECURSIVE DrainFold_prepend(_, _, _, _)
DrainFold_prepend(buf, i, count, bytes) ==
    IF i > count THEN SOME(bytes)
    ELSE IF i > Len(buf) \/ ~IsSome(buf[i]) THEN PANIC("unwrap")
    ELSE DrainFold_prepend(buf, i + 1, count, buf[i].val.payload \o bytes)

\* drain(0..count).fold(BytesMut::new(), ...) from slot i on; pack.unwrap()
\* panics on an absent slot, drain on a range beyond the end
RECURSIVE DrainFold(_, _, _, _)
DrainFold(buf, i, count, bytes) ==
    IF i > count THEN SOME(bytes)
    ELSE IF i > Len(buf) \/ ~IsSome(buf[i]) THEN PANIC("unwrap")
    ELSE DrainFold(buf, i + 1, count, bytes \o buf[i].val.payload)

\* Mutant of next_msg: the range drained is 0..count-1, one slot short.
next_msg_keepLast(buf, h) ==
    LET ready == next_msg_ready(buf) IN
    IF ~IsSome(ready)
    THEN [head |-> h, buffer |-> buf, ret |-> ready]
    ELSE LET count == ready.val IN
         [head   |-> SeqAdd(h, count),
          buffer |-> SubSeq(buf, count, Len(buf)),
          ret    |-> IF count = 1
                     THEN PopFrontPayload(buf)
                     ELSE DrainFold(buf, 1, count, <<>>)]

\* Mutant of next_msg: head is advanced before the readiness check.
next_msg_advanceFirst(buf, h) ==
    LET ready == next_msg_ready(buf) IN
    IF ~IsSome(ready)
    THEN [head |-> SeqAdd(h, 1), buffer |-> buf, ret |-> ready]
    ELSE LET count == ready.val IN
         [head   |-> SeqAdd(h, count),
          buffer |-> SubSeq(buf, count + 1, Len(buf)),
          ret    |-> IF count = 1
                     THEN PopFrontPayload(buf)
                     ELSE DrainFold(buf, 1, count, <<>>)]

\* Mutant of next_msg: `self.head = count` instead of `self.head += count`.
next_msg_headAssigned(buf, h) ==
    LET ready == next_msg_ready(buf) IN
    IF ~IsSome(ready)
    THEN [head |-> h, buffer |-> buf, ret |-> ready]
    ELSE LET count == ready.val IN
         [head   |-> count,
          buffer |-> SubSeq(buf, count + 1, Len(buf)),
          ret    |-> IF count = 1
                     THEN PopFrontPayload(buf)
                     ELSE DrainFold(buf, 1, count, <<>>)]

\* the receiver after the call, and what the call returned
next_msg(buf, h) ==
    LET ready == next_msg_ready(buf) IN
    IF ~IsSome(ready)
    THEN [head |-> h, buffer |-> buf, ret |-> ready]
    ELSE LET count == ready.val IN
         [head   |-> SeqAdd(h, count),
          buffer |-> SubSeq(buf, count + 1, Len(buf)),
          ret    |-> IF count = 1
                     THEN PopFrontPayload(buf)
                     ELSE DrainFold(buf, 1, count, <<>>)]

----------------------------------------------------------------------------
(* The state machine: one action per method of RecvBuffer *)

\* the state RecvBuffer::new leaves, whatever the peer's stream is
InitWindow ==
    /\ head0 \in Heads
    /\ head = head0
    /\ buffer = <<>>
    /\ op = "new"
    /\ arg = NONE
    /\ ret = NONE
    /\ status = "running"
    /\ tracked = TRUE
    /\ inserted = {}
    /\ taken = <<>>
    /\ out = <<>>

Init ==
    /\ InitWindow
    /\ stream = <<>>

\* the add keeps the history exact: a new sequence number, not before head
FreshAdd(pack) ==
    /\ tracked
    /\ ~SeqLess(pack.seq_number, head)
    /\ \A q \in inserted : q.seq_number # pack.seq_number

Add(pack) ==
    /\ status = "running"
    /\ IF AddIndexPanics(buffer, head, pack)
       THEN /\ buffer' = buffer
            /\ ret' = PANIC("index")
            /\ status' = "panicked"
       ELSE /\ buffer' = add(buffer, head, pack)
            /\ ret' = NONE
            /\ status' = "running"
    /\ op' = "add"
    /\ arg' = SOME(pack)
    /\ tracked' = FreshAdd(pack)
    /\ inserted' = IF FreshAdd(pack) THEN inserted \cup {pack} ELSE {}
    /\ UNCHANGED <<head0, head, taken, out, stream>>

NextRelease ==
    /\ status = "running"
    /\ op' = "next_release"
    /\ arg' = NONE
    /\ ret' = SOME(head)
    /\ UNCHANGED <<head0, head, buffer, status, tracked, inserted, taken, out,
                   stream>>

NextMsgReady ==
    /\ status = "running"
    /\ op' = "next_msg_ready"
    /\ arg' = NONE
    /\ ret' = next_msg_ready(buffer)
    /\ status' = IF ret'.kind = "Panic" THEN "panicked" ELSE "running"
    /\ UNCHANGED <<head0, head, buffer, tracked, inserted, taken, out, stream>>

\* the packets (sequence number and payload) held by the slots that the call
\* removed from the front
RemovedPackets(buf, after) ==
    LET gone == SelectSeq(SubSeq(buf, 1, Len(buf) - Len(after)), IsSome)
    IN  [i \in 1..Len(gone) |->
            [seq_number |-> gone[i].val.seq_number, payload |-> gone[i].val.payload]]

NextMsg ==
    /\ status = "running"
    /\ LET r == next_msg(buffer, head) IN
        /\ head' = r.head
        /\ buffer' = r.buffer
        /\ ret' = r.ret
        /\ status' = IF r.ret.kind = "Panic" THEN "panicked" ELSE "running"
        /\ tracked' = (tracked /\ ~IsSome(r.ret))
        /\ inserted' = IF tracked /\ ~IsSome(r.ret) THEN inserted ELSE {}
        /\ taken' = taken \o RemovedPackets(buffer, r.buffer)
        /\ out' = IF IsSome(r.ret) THEN out \o r.ret.val ELSE out
    /\ op' = "next_msg"
    /\ arg' = NONE
    /\ UNCHANGED <<head0, stream>>

Next ==
    \/ \E pack \in DataPacket(head0) : Add(pack)
    \/ NextRelease
    \/ NextMsgReady
    \/ NextMsg

Spec == Init /\ [][Next]_vars

----------------------------------------------------------------------------
(* The receiver fed by a well-formed peer: every packet added carries the  *)
(* flags that the peer's stream gives its sequence number.                 *)

\* fl[k] are the flags of sequence number head0 + k - 1: a succession of
\* messages, FIRST exactly on the packet that opens one (the first packet and
\* each packet after a LAST), LAST on the packet that closes one; the last
\* message may still be open
WellFormed(fl) ==
    \A k \in 1..Len(fl) :
        FIRST \in fl[k] <=> (k = 1 \/ LAST \in fl[k - 1])

PeerStreams ==
    UNION {{fl \in [1..n -> PacketLocation] : WellFormed(fl)} : n \in 1..MaxSpan}

\* the finite streams: the last packet closes the last message
FiniteStreams == {fl \in PeerStreams : LAST \in fl[Len(fl)]}

\* pack is a packet of the stream
OnStream(pack) ==
    LET k == SeqSub(pack.seq_number, head0) + 1 IN
    /\ k \in 1..Len(stream)
    /\ pack.message_loc = stream[k]

\* add of some packet of the stream with sequence number head0 + k
AddAt(k) ==
    \E pack \in DataPacket(head0) :
        /\ pack.seq_number = SeqAdd(head0, k)
        /\ OnStream(pack)
        /\ Add(pack)

InitWF ==
    /\ InitWindow
    /\ stream \in PeerStreams

NextWF ==
    \/ \E k \in 0..(MaxSpan - 1) : AddAt(k)
    \/ NextRelease
    \/ NextMsgReady
    \/ NextMsg

SpecWF == InitWF /\ [][NextWF]_vars

\* Initial heads of the runs checked for progress: one of the tests, and the
\* one just below the wrap-around.
LiveHeads == {5, MaxSeqNum - 1}

\* a finite stream, every packet of it added again and again and next_msg
\* called again and again
InitLive ==
    /\ InitWindow
    /\ head0 \in LiveHeads
    /\ stream \in FiniteStreams

SpecLive ==
    /\ InitLive
    /\ [][NextWF]_vars
    /\ WF_vars(NextMsg)
    /\ \A k \in 0..(MaxSpan - 1) : WF_vars(AddAt(k))

----------------------------------------------------------------------------
TypeOK ==
    /\ head0 \in Heads
    /\ head \in 0..MaxSeqNum
    /\ Len(buffer) <= MaxSpan
    /\ status \in {"running", "panicked"}
    /\ op \in {"new", "add", "next_release", "next_msg_ready", "next_msg"}

----------------------------------------------------------------------------
(* Vocabulary of the properties: the window described slot by slot *)

\* slot i (1-based: offset i - 1) holds a packet
Present(buf, i) == i \in 1..Len(buf) /\ buf[i].kind = "Some"

\* slot i holds a packet carrying flag f
Carries(buf, i, f) == Present(buf, i) /\ f \in buf[i].val.message_loc

\* the slots holding a LAST-flagged packet
LastSlots(buf) == {i \in 1..Len(buf) : Carries(buf, i, LAST)}

Min(S) == CHOOSE m \in S : \A x \in S : m <= x

\* the payloads of slots 1..n, one after the other
RECURSIVE ConcatPayloads(_, _)
ConcatPayloads(buf, n) ==
    IF n = 0 THEN <<>> ELSE ConcatPayloads(buf, n - 1) \o buf[n].val.payload

\* what message_ready() has to answer when slot 0 is absent or carries FIRST
ExpectedReady(buf) ==
    IF Len(buf) = 0 \/ ~Present(buf, 1) THEN NONE
    ELSE IF LastSlots(buf) = {} THEN NONE
    ELSE LET m == Min(LastSlots(buf)) IN
         IF \A j \in 1..(m - 1) : Present(buf, j) THEN SOME(m) ELSE NONE

----------------------------------------------------------------------------
(* C1: when message_ready() reports a message of count slots, next_msg     *)
(* advances head by exactly count, removes exactly the first count slots   *)
(* (every remaining slot keeps its packet, count positions lower) and      *)
(* returns the payloads of slots 0..count-1 concatenated in slot order.    *)
C1_TakeStep ==
    (op' = "next_msg" /\ IsSome(next_msg_ready(buffer))) =>
        LET count == next_msg_ready(buffer).val IN
        /\ head' = SeqAdd(head, count)
        /\ Len(buffer') = Len(buffer) - count
        /\ \A i \in 1..Len(buffer') : buffer'[i] = buffer[i + count]
        /\ ret' = SOME(ConcatPayloads(buffer, count))

C1_TakeMessage == [][C1_TakeStep]_vars

\* FIRST@5, a middle packet @6 and LAST@7 released as one message of 3 slots
C1_Witness ==
    /\ op = "next_msg"
    /\ head0 = 5
    /\ head = 8
    /\ buffer = <<>>
    /\ ret = SOME(Hello \o Yas \o Hello)

(* C2: whenever slot 0 is absent or carries FIRST, message_ready() answers *)
(* "not ready" for an empty window or a gap at slot 0, the 1-based index   *)
(* of the first LAST-flagged slot when every slot before it is present,    *)
(* and "not ready" when a gap or the end of the slots comes first.         *)
C2_ReadyResult ==
    (op = "next_msg_ready" /\ ~AssertFirstFails(buffer)) =>
        ret = ExpectedReady(buffer)

\* a LAST-flagged packet behind a present FIRST packet: count 2
C2_Witness ==
    /\ op = "next_msg_ready"
    /\ Len(buffer) = 3
    /\ ret = SOME(2)
    /\ Present(buffer, 3)

(* C3: next_release(), i.e. head, never decreases (in sequence-number      *)
(* order) from one state to the next, whatever adds and next_msgs happen.  *)
C3_HeadNeverDecreases == [][~SeqLess(head', head)]_vars

\* a release that carried head across the wrap-around of the counter
C3_Witness ==
    /\ op = "next_msg"
    /\ IsSome(ret)
    /\ head0 = MaxSeqNum - 1
    /\ head = 1

(* C4: add of a packet whose sequence number is strictly less than head is *)
(* a no-op: head, the slots and the window length are unchanged, and so    *)
(* are the answers of message_ready() and take_message() afterwards.       *)
C4_StaleStep ==
    (op' = "add" /\ SeqLess(arg'.val.seq_number, head)) =>
        /\ head' = head
        /\ Len(buffer') = Len(buffer)
        /\ \A i \in 1..Len(buffer) : buffer'[i] = buffer[i]
        /\ next_msg_ready(buffer') = next_msg_ready(buffer)
        /\ next_msg(buffer', head') = next_msg(buffer, head)

C4_StaleAddIsNoOp == [][C4_StaleStep]_vars

\* a stale packet was added to a window that holds packets
C4_Witness ==
    /\ op = "add"
    /\ SeqLess(arg.val.seq_number, head)
    /\ Present(buffer, 1)

\* slot 0 carries FIRST and some slot k is absent with no LAST before it
GapBlocked(buf) ==
    /\ Carries(buf, 1, FIRST)
    /\ \E k \in 1..Len(buf) :
        /\ ~Present(buf, k)
        /\ \A j \in 1..(k - 1) : ~Carries(buf, j, LAST)

(* C5: gap blocking: with FIRST at slot 0 and an absent slot k that no     *)
(* LAST-flagged packet precedes, message_ready() reports "not ready" and   *)
(* take_message() returns nothing, whatever is stored beyond k.            *)
C5_GapStep ==
    (GapBlocked(buffer) /\ op' \in {"next_msg_ready", "next_msg"}) =>
        /\ ret' = NONE
        /\ head' = head
        /\ buffer' = buffer

C5_GapBlocking == [][C5_GapStep]_vars

\* FIRST@5, nothing @6 and a LAST-flagged packet @7: take_message gave nothing
C5_Witness ==
    /\ op = "next_msg"
    /\ head0 = 5
    /\ head = 5
    /\ GapBlocked(buffer)
    /\ ~Present(buffer, 2)
    /\ Carries(buffer, 3, LAST)
    /\ ret = NONE

\* the three ways of being "not ready": empty window, gap at slot 0, FIRST at
\* slot 0 without a run of present slots that reaches a LAST-flagged packet
NotReadyCase(buf) ==
    \/ Len(buf) = 0
    \/ ~Present(buf, 1)
    \/ /\ Carries(buf, 1, FIRST)
       /\ ~\E n \in 1..Len(buf) :
             /\ Carries(buf, n, LAST)
             /\ \A j \in 1..n : Present(buf, j)

(* C6: when message_ready() would report "not ready", take_message()       *)
(* returns nothing and leaves head and all slots unchanged; a freshly      *)
(* created window answers next_release() = its head and take_message() =   *)
(* None (head = 3 in the test not_ready_empty).                            *)
C6_NotReadyStep ==
    /\ (op' = "next_msg" /\ NotReadyCase(buffer)) =>
            (ret' = NONE /\ head' = head /\ buffer' = buffer)
    /\ (op = "new" /\ op' = "next_release") => ret' = SOME(head0)
    /\ (op = "new" /\ op' = "next_msg") => ret' = NONE

C6_NotReadyTakesNothing == [][C6_NotReadyStep]_vars

\* take_message() on the window created with head = 3 and never filled
C6_Witness ==
    /\ op = "next_msg"
    /\ head0 = 3
    /\ head = 3
    /\ buffer = <<>>
    /\ tracked /\ inserted = {}
    /\ ret = NONE

\* the window that holds exactly the packets of S, each at its offset from h
CanonicalWindow(h, S) ==
    IF S = {} THEN <<>>
    ELSE LET offsets == {SeqSub(p.seq_number, h) : p \in S}
             top == CHOOSE m \in offsets : \A x \in offsets : x <= m
         IN  [i \in 1..(top + 1) |->
                IF \E p \in S : SeqSub(p.seq_number, h) = i - 1
                THEN SOME(CHOOSE p \in S : SeqSub(p.seq_number, h) = i - 1)
                ELSE NONE]

(* C7: out-of-order arrival: packets with pairwise distinct sequence       *)
(* numbers >= head give the same window (head, length, slots) in whatever  *)
(* order they are added: the window is a function of the set of packets,   *)
(* and so are the answers of message_ready() and take_message().           *)
C7_OrderIndependent ==
    tracked =>
        /\ head = head0
        /\ buffer = CanonicalWindow(head0, inserted)

\* three packets, the middle one added last, make a message of 3 slots
C7_Witness ==
    /\ tracked
    /\ Cardinality(inserted) = 3
    /\ op = "add"
    /\ arg.val.seq_number = SeqAdd(head0, 1)
    /\ next_msg_ready(buffer) = SOME(3)

\* the number of slots the last next_msg step released
Released(h, h2) == SeqSub(h2, h)

(* C8: every message returned by take_message() was taken from a run of    *)
(* present slots starting at offset 0, the first carrying FIRST, the last  *)
(* carrying LAST, with no absent slot inside: extraction never reads an    *)
(* absent slot.                                                            *)
C8_ReleaseStep ==
    /\ op' = "next_msg" => ret' # PANIC("unwrap")
    /\ (op' = "next_msg" /\ IsSome(ret')) =>
        LET n == Released(head, head') IN
        /\ n >= 1
        /\ n = Len(buffer) - Len(buffer')
        /\ \A i \in 1..n : Present(buffer, i)
        /\ Carries(buffer, 1, FIRST)
        /\ Carries(buffer, n, LAST)

C8_ReleasedRunIsContiguous == [][C8_ReleaseStep]_vars

\* a message of two slots was released and a packet stays behind it
C8_Witness ==
    /\ op = "next_msg"
    /\ IsSome(ret)
    /\ Released(head0, head) = 2
    /\ Len(ret.val) >= 2 * Len(Yas)
    /\ Present(buffer, 1)

(* C9 as stated: in every released message of three or more slots no       *)
(* intermediate packet carries FIRST or LAST.                              *)
C9_OriginalStep ==
    (op' = "next_msg" /\ IsSome(ret') /\ Released(head, head') >= 3) =>
        \A i \in 2..(Released(head, head') - 1) :
            ~Carries(buffer, i, FIRST) /\ ~Carries(buffer, i, LAST)

C9_Original == [][C9_OriginalStep]_vars

(* C9 amended: in every released message no packet before the last one of  *)
(* the run carries LAST (the scan stops at the first LAST); the FIRST flag *)
(* of the intermediate packets is not looked at and may be set.            *)
C9_AmendedStep ==
    (op' = "next_msg" /\ IsSome(ret')) =>
        \A i \in 1..(Released(head, head') - 1) : ~Carries(buffer, i, LAST)

C9_NoIntermediateLast == [][C9_AmendedStep]_vars

\* a message of three slots has just been released
C9_Witness ==
    /\ op = "next_msg"
    /\ IsSome(ret)
    /\ Released(head0, head) = 3
    /\ Len(ret.val) > 2 * Len(Hello)

(* C10 as stated: with a packet lacking FIRST at offset 0, message_ready() *)
(* and take_message() return a distinguishable failure value, the caller   *)
(* keeps running, and head and the slots are unchanged.                    *)
C10_FaultStep ==
    (AssertFirstFails(buffer) /\ op' \in {"next_msg_ready", "next_msg"}) =>
        /\ status' = "running"
        /\ ret'.kind \notin {"None", "Some", "Panic"}
        /\ head' = head
        /\ buffer' = buffer

C10_FaultIsAResult == [][C10_FaultStep]_vars

(* C11: slot-position invariant: every present slot at index i holds the   *)
(* packet whose sequence number is head + i (slot 0 holds head), and no    *)
(* packet with a sequence number strictly less than head is stored.        *)
C11_SlotPosition ==
    \A i \in 1..Len(buffer) :
        Present(buffer, i) =>
            /\ buffer[i].val.seq_number = SeqAdd(head, i - 1)
            /\ ~SeqLess(buffer[i].val.seq_number, head)

\* after a release, packets remain at slots 0 and 1 of the moved window
C11_Witness ==
    /\ head # head0
    /\ Present(buffer, 1)
    /\ Present(buffer, 2)

(* C12: single-packet fast path: with FIRST and LAST on the packet at      *)
(* offset 0, message_ready() reports 1 whatever is stored behind it, and   *)
(* take_message() returns exactly that packet's payload, advances head by  *)
(* exactly 1 and shortens the window by exactly 1, later slots in place.   *)
C12_SingleStep ==
    (Carries(buffer, 1, FIRST) /\ Carries(buffer, 1, LAST)) =>
        /\ op' = "next_msg_ready" => ret' = SOME(1)
        /\ op' = "next_msg" =>
            /\ ret' = SOME(buffer[1].val.payload)
            /\ head' = SeqAdd(head, 1)
            /\ Len(buffer') = Len(buffer) - 1
            /\ \A i \in 1..Len(buffer') : buffer'[i] = buffer[i + 1]

C12_SinglePacketFastPath == [][C12_SingleStep]_vars

\* head = 5, FIRST|LAST@5 "hello" released, the packet @6 stays: one slot left
C12_Witness ==
    /\ op = "next_msg"
    /\ head0 = 5
    /\ head = 6
    /\ ret = SOME(Hello)
    /\ Len(buffer) = 1
    /\ Present(buffer, 1)
    /\ buffer[1].val.payload = Yas

\* the offset of a packet that add does not drop
Offset(pack, h) == SeqSub(pack.seq_number, h)

Max(a, b) == IF a >= b THEN a ELSE b

(* C13: minimal window size: the window is empty when no packet is         *)
(* buffered, otherwise its last slot is present (length = highest buffered *)
(* sequence number - head + 1); add never reduces the length and sets it   *)
(* to max(old length, offset + 1); only next_msg reduces it.               *)
C13_LengthStep ==
    /\ Len(buffer) > 0 => Present(buffer, Len(buffer))
    /\ Len(buffer') > 0 => Present(buffer', Len(buffer'))
    /\ (op' = "add" /\ ~SeqLess(arg'.val.seq_number, head)) =>
            Len(buffer') = Max(Len(buffer), Offset(arg'.val, head) + 1)
    /\ op' = "add" => Len(buffer') >= Len(buffer)
    /\ Len(buffer') < Len(buffer) => (op' = "next_msg" /\ IsSome(ret'))

C13_MinimalWindow == [][C13_LengthStep]_vars

\* after a release, an add at offset 1 grew the empty window to exactly 2 slots
C13_Witness ==
    /\ op = "add"
    /\ head # head0
    /\ ~SeqLess(arg.val.seq_number, head)
    /\ Len(buffer) = Offset(arg.val, head) + 1
    /\ Len(buffer) = 2
    /\ ~Present(buffer, 1)

(* C14: take_message() is the only operation that changes head: add,      *)
(* message_ready() and next_release() leave it unchanged (the two queries  *)
(* leave the slots unchanged too), and a successful take_message() moves   *)
(* head by exactly the count message_ready() reported before the call.     *)
C14_HeadStep ==
    /\ op' \in {"add", "next_msg_ready", "next_release"} => head' = head
    /\ op' \in {"next_msg_ready", "next_release"} => buffer' = buffer
    /\ head' # head => op' = "next_msg"
    /\ (op' = "next_msg" /\ IsSome(ret')) =>
            /\ IsSome(next_msg_ready(buffer))
            /\ SeqSub(head', head) = next_msg_ready(buffer).val

C14_OnlyTakeMovesHead == [][C14_HeadStep]_vars

\* an add of a packet for the moved window, after head has advanced by 2
C14_Witness ==
    /\ op = "add"
    /\ Released(head0, head) = 2
    /\ arg.val.seq_number = head
    /\ Present(buffer, 1)

(* C15: last-writer-wins: an add of a packet with sequence number >= head  *)
(* at an offset that already holds a packet replaces that slot with the    *)
(* new packet (payload and flags) and leaves head, the window length and   *)
(* every other slot unchanged.                                             *)
C15_OverwriteStep ==
    (/\ op' = "add"
     /\ ~SeqLess(arg'.val.seq_number, head)
     /\ Present(buffer, Offset(arg'.val, head) + 1)) =>
        LET k == Offset(arg'.val, head) + 1 IN
        /\ buffer'[k] = SOME(arg'.val)
        /\ head' = head
        /\ Len(buffer') = Len(buffer)
        /\ \A i \in 1..Len(buffer) : i # k => buffer'[i] = buffer[i]

C15_LastWriterWins == [][C15_OverwriteStep]_vars

\* only slot 0 was ever written, more than once: the last add replaced a packet
C15_Witness ==
    /\ op = "add"
    /\ head = head0
    /\ ~tracked
    /\ Len(buffer) = 1
    /\ buffer[1] = arg

\* the states of the window for the message at its front
Idle(buf) == ~Present(buf, 1)

Ready(buf) ==
    /\ Carries(buf, 1, FIRST)
    /\ \E n \in 1..Len(buf) :
        /\ Carries(buf, n, LAST)
        /\ \A j \in 1..n : Present(buf, j)

Accumulating(buf) == Carries(buf, 1, FIRST) /\ ~Ready(buf)

\* the add of pack leaves the flags of every stored packet as they are: pack
\* is stale, or its slot is absent, or the slot holds the same flags
KeepsFlags(buf, h, pack) ==
    \/ SeqLess(pack.seq_number, h)
    \/ ~Present(buf, Offset(pack, h) + 1)
    \/ buf[Offset(pack, h) + 1].val.message_loc = pack.message_loc

(* C16 as stated: an insert of any packet moves the window only forward:   *)
(* from Ready it stays Ready, from Accumulating it stays Accumulating or   *)
(* becomes Ready, and only take_message() leaves the Ready state.          *)
C16_OriginalStep ==
    /\ (op' = "add" /\ Ready(buffer)) => Ready(buffer')
    /\ (op' = "add" /\ Accumulating(buffer)) =>
            (Accumulating(buffer') \/ Ready(buffer'))
    /\ (Ready(buffer) /\ ~Ready(buffer')) => op' = "next_msg"

C16_Original == [][C16_OriginalStep]_vars

(* C16 amended: an insert that leaves the flags of every stored packet as  *)
(* they are (a stale packet, a packet for an absent slot, a duplicate with *)
(* the same flags) moves the window only forward; the Ready state is left  *)
(* only by take_message() or by an insert that overwrites a stored packet  *)
(* with different flags.                                                   *)
C16_AmendedStep ==
    /\ (op' = "add" /\ KeepsFlags(buffer, head, arg'.val) /\ Ready(buffer)) =>
            Ready(buffer')
    /\ (op' = "add" /\ KeepsFlags(buffer, head, arg'.val) /\ Accumulating(buffer)) =>
            (Accumulating(buffer') \/ Ready(buffer'))
    /\ (Ready(buffer) /\ ~Ready(buffer')) =>
            \/ op' = "next_msg"
            \/ op' = "add" /\ ~KeepsFlags(buffer, head, arg'.val)

C16_ForwardUnlessOverwritten == [][C16_AmendedStep]_vars

\* FIRST was at slot 0 and the add of a LAST-flagged packet at the absent
\* slot 1 completed the message: Accumulating -> Ready
C16_Witness ==
    /\ op = "add"
    /\ tracked
    /\ Cardinality(inserted) = 2
    /\ arg.val.seq_number = SeqAdd(head0, 1)
    /\ LAST \in arg.val.message_loc
    /\ Ready(buffer)
    /\ ~Carries(buffer, 1, LAST)

(* C17: exactly one fault class: the only failure ever reached is the      *)
(* readiness check finding a packet without FIRST at slot 0; add never     *)
(* fails; a count returned by message_ready() lies in 1..length with slots *)
(* 0..count-1 all present, so take_message() never fails while extracting. *)
C17_OneFaultClass ==
    /\ status = "panicked" =>
            /\ op \in {"next_msg_ready", "next_msg"}
            /\ ret = PANIC("assert")
            /\ AssertFirstFails(buffer)
    /\ ret.kind = "Panic" => status = "panicked"
    /\ op = "add" => ret = NONE
    /\ IsSome(next_msg_ready(buffer)) =>
            /\ next_msg_ready(buffer).val \in 1..Len(buffer)
            /\ \A i \in 1..next_msg_ready(buffer).val : Present(buffer, i)

\* after a release, take_message() met a packet without FIRST at slot 0
C17_Witness ==
    /\ status = "panicked"
    /\ op = "next_msg"
    /\ head # head0
    /\ Len(buffer) > 1

\* the payloads of the first n packets of t, one after the other
RECURSIVE ConcatTaken(_, _)
ConcatTaken(t, n) ==
    IF n = 0 THEN <<>> ELSE ConcatTaken(t, n - 1) \o t[n].payload

(* C18: exactly-once in-order release: the bytes returned so far by        *)
(* take_message() are the payloads of one packet for each sequence number  *)
(* from head0 to head - 1, in increasing order: none twice, none skipped.  *)
C18_ExactlyOnceInOrder ==
    /\ Len(taken) = SeqSub(head, head0)
    /\ \A i \in 1..Len(taken) : taken[i].seq_number = SeqAdd(head0, i - 1)
    /\ out = ConcatTaken(taken, Len(taken))

\* two calls returned messages: a first one, then "yas" from the last packet
C18_Witness ==
    /\ op = "next_msg"
    /\ IsSome(ret)
    /\ ret.val = Yas
    /\ Len(taken) = 3
    /\ Len(out) > Len(Hello) + Len(Yas)

(* C19: well-formed streams never fault: when every packet added carries   *)
(* the flags of a well-formed stream, slot 0 is absent or carries FIRST in *)
(* every state reached by adds (any order, duplicates, stale packets) and  *)
(* next_msg, so the assertion of next_msg_ready never fails.               *)
C19_WellFormedNeverFaults ==
    /\ ~AssertFirstFails(buffer)
    /\ Present(buffer, 1) => Carries(buffer, 1, FIRST)
    /\ status = "running"

\* a stale packet of the stream was added after a release, with the opening
\* packet of the next message at slot 0
C19_Witness ==
    /\ Len(stream) = 3
    /\ op = "add"
    /\ SeqLess(arg.val.seq_number, head)
    /\ Carries(buffer, 1, FIRST)
    /\ head # head0

(* C20: eventual release: for a finite well-formed stream whose packets    *)
(* are all added (in any order, with duplicates) while take_message() is   *)
(* called repeatedly, every message is eventually returned: head ends at   *)
(* head0 + the number of packets, with the window empty, for good.         *)
C20_EventualRelease ==
    <>[](/\ head = SeqAdd(head0, Len(stream))
         /\ buffer = <<>>
         /\ Len(taken) = Len(stream)
         /\ out = ConcatTaken(taken, Len(taken)))

\* a stream of two messages (1 packet, then 2) has been released entirely
C20_Witness ==
    /\ Len(stream) = 3
    /\ LAST \in stream[1]
    /\ LAST \notin stream[2]
    /\ head = SeqAdd(head0, 3)
    /\ buffer = <<>>
    /\ Len(taken) = 3

====
